---- MODULE Spec2Model ----
(***************************************************************************)
(* Stargazer service: the data provider, the two query handlers of the     *)
(* backend router (project info, available projects) and the worker /      *)
(* display logic of the desktop client.                                    *)
(***************************************************************************)
EXTENDS Integers, Sequences, FiniteSets, TLC

VARIABLES
    resource,   \* the CSV file on disk: how read_csv fares on it, and its table
    dataframe,  \* what the provider's get_dataframe returned to the last handler
    request,    \* the last request served by the backend
    response,   \* the response the backend gave to it
    loaded,     \* history: the file as the last two provider calls found it
    first,      \* history: per project name, the first answer since the file last changed
    combo,      \* the client's combo box: items, current text, signal connected
    names_job,  \* the client's project-names worker
    pool,       \* the client's project-details workers that have not emitted yet
    events,     \* results emitted by workers, queued for the UI thread
    label,      \* text of current_project_label
    plot,       \* the plotted points
    started,    \* number of project-details workers started so far
    shown,      \* history: the most recently delivered successful result
    applied     \* history: the workers whose results reached update_graph, in order

vars == <<resource, dataframe, request, response, loaded, first, combo, names_job,
          pool, events, label, plot, started, shown, applied>>

serverVars == <<resource, dataframe, request, response, loaded, first>>
clientVars == <<combo, names_job, pool, events, label, plot, started, shown, applied>>

----------------------------------------------------------------------------
(* Bounds of the model *)

MaxRows == 3          \* rows of a generated table
MaxWorkers == 3       \* project-details workers started in one run

(* Values the generated tables draw from *)
ProjectNames == {"A", "B"}
Dates == {<<2008, 4>>, <<2009, 3>>, <<2009, 4>>}      \* (year, month)
StarCounts == {10, 20}
RequestNames == ProjectNames \cup {"NotAProject"}

RequiredColumns == {"name", "year", "month", "star_count_current"}
AllColumns == RequiredColumns \cup {"color_num"}

HTTP_OK == 200
HTTP_NOT_FOUND == 404

----------------------------------------------------------------------------
(* Tables *)

None == [kind |-> "None"]

NaN == [kind |-> "NaN"]

FullRows ==
    { [c \in AllColumns |->
          CASE c = "name" -> n
            [] c = "year" -> d[1]
            [] c = "month" -> d[2]
            [] c = "star_count_current" -> s
            [] OTHER -> 90] :
        n \in ProjectNames, d \in Dates, s \in StarCounts }

Restrict(f, S) == [c \in S |-> f[c]]

RowsOver(cols) == { Restrict(r, cols) : r \in FullRows }

DataFrame(cols, rows) == [kind |-> "DataFrame", columns |-> cols, rows |-> rows]

ColumnSets == (SUBSET RequiredColumns) \cup {AllColumns}

(* pandas: Series.max() of an empty selection is NaN *)
SeriesMax(S) ==
    IF S = {} THEN NaN ELSE CHOOSE x \in S : \A y \in S : y <= x

Column(rows, c) == { rows[i][c] : i \in 1..Len(rows) }

----------------------------------------------------------------------------
(* Data provider *)

ReadOutcomes == {"ok", "missing", "malformed", "ioerror"}

Resource(state, frame) == [state |-> state, frame |-> frame]

(* Variant: a failed read yields an empty table instead of the missing marker *)
get_dataframe_empty(res) ==
    IF res.state = "ok" THEN res.frame ELSE DataFrame({}, <<>>)

(* Variant: a failed read falls back on the table of the previous call *)
get_dataframe_cached(res) ==
    IF res.state = "ok" THEN res.frame ELSE dataframe

(* GitHub_Response_Provider.get_dataframe: read_csv inside try / bare except *)
get_dataframe(res) ==
    IF res.state = "ok" THEN res.frame ELSE None

----------------------------------------------------------------------------
(* Query handlers *)

HTTPException(status_code, detail) ==
    [kind |-> "HTTPException", status_code |-> status_code, detail |-> detail]

DataframeMissing == HTTPException(HTTP_NOT_FOUND, "Dataframe Missing")

DataframeCorrupted == HTTPException(HTTP_NOT_FOUND, "Dataframe Corrupted")

(* Variant: an unknown project reported as a bad request *)
NoProjectDetails_400 == HTTPException(400, "No project details")

NoProjectDetails == HTTPException(HTTP_NOT_FOUND, "No project details")

Starpoint(year, month, total_stars) ==
    [year |-> year, month |-> month, total_stars |-> total_stars]

GitHub_Project(project_name, number_of_stars, starpoints) ==
    [kind |-> "GitHub_Project", project_name |-> project_name,
     number_of_stars |-> number_of_stars, starpoints |-> starpoints]

(* dataframe[dataframe["name"] == project_name] *)
FilterName(rows, project_name) ==
    SelectSeq(rows, LAMBDA r : r["name"] = project_name)

(* dataframe["year"].max() *)
last_year(rows) == SeriesMax(Column(rows, "year"))

(* dataframe[dataframe["year"] == last_year]["month"].max() *)
last_month(rows) ==
    SeriesMax(Column(SelectSeq(rows, LAMBDA r : r["year"] = last_year(rows)), "month"))

(* Variant: the largest count of the project, whatever its month *)
number_of_stars_overall(rows) == SeriesMax(Column(rows, "star_count_current"))

(* dataframe[(year == last_year) & (month == last_month)]['star_count_current'].max() *)
number_of_stars(rows) ==
    SeriesMax(Column(SelectSeq(rows, LAMBDA r : /\ r["year"] = last_year(rows)
                                                /\ r["month"] = last_month(rows)),
                     "star_count_current"))

(* Variant: the list of points is kept between requests and only grows *)
starpoints_accumulated(rows) ==
    LET before == IF response.body.kind = "GitHub_Project"
                  THEN response.body.starpoints ELSE <<>>
    IN before \o [i \in 1..Len(rows) |->
                     Starpoint(rows[i]["year"], rows[i]["month"],
                               rows[i]["star_count_current"])]

(* Variant: repeated rows appended once *)
starpoints_distinct(rows) ==
    LET keep == SelectSeq([i \in 1..Len(rows) |-> i],
                          LAMBDA i : \A j \in 1..(i - 1) : rows[j] # rows[i])
    IN [k \in 1..Len(keep) |->
           Starpoint(rows[keep[k]]["year"], rows[keep[k]]["month"],
                     rows[keep[k]]["star_count_current"])]

(* the loop over range(len(dataframe)) appending one Starpoint per row *)
starpoints(rows) ==
    [i \in 1..Len(rows) |->
        Starpoint(rows[i]["year"], rows[i]["month"], rows[i]["star_count_current"])]

ColumnsPresent(df) == RequiredColumns \subseteq df.columns

(* Variant: the emptiness test made on the table before it is filtered *)
get_github_project_info_unfiltered(project_name, df) ==
    IF df = None THEN DataframeMissing
    ELSE IF ~ColumnsPresent(df) THEN DataframeCorrupted
    ELSE LET rows == FilterName(df.rows, project_name) IN
         IF Len(df.rows) = 0 THEN NoProjectDetails
         ELSE GitHub_Project(project_name, number_of_stars(rows), starpoints(rows))

get_github_project_info(project_name, df) ==
    IF df = None THEN DataframeMissing
    ELSE IF ~ColumnsPresent(df) THEN DataframeCorrupted
    ELSE LET rows == FilterName(df.rows, project_name) IN
         IF Len(rows) = 0 THEN NoProjectDetails
         ELSE GitHub_Project(project_name, number_of_stars(rows), starpoints(rows))

(* Variant: the name column as it is, repeats included *)
unique_tolist(s) == s

(* Series.unique(): the distinct values in order of first appearance *)
RECURSIVE unique(_)
unique(s) ==
    IF s = <<>> THEN <<>>
    ELSE LET init == unique(SubSeq(s, 1, Len(s) - 1))
             x == s[Len(s)]
         IN IF \E i \in 1..Len(init) : init[i] = x THEN init ELSE Append(init, x)

(* Variant: the project-info column test reused for the list of projects *)
NameColumnPresent_all(df) == RequiredColumns \subseteq df.columns

NameColumnPresent(df) == "name" \in df.columns

get_available_projects(df) ==
    IF df = None THEN DataframeMissing
    ELSE IF ~NameColumnPresent(df) THEN DataframeCorrupted
    ELSE [kind |-> "list",
          names |-> unique([i \in 1..Len(df.rows) |-> df.rows[i]["name"]])]

(* The route: an HTTPException becomes its status code and detail, a returned
   value becomes the body of a success response *)
Respond(result) ==
    IF result.kind = "HTTPException"
    THEN [status_code |-> result.status_code, detail |-> result.detail, body |-> None]
    ELSE [status_code |-> HTTP_OK, detail |-> "", body |-> result]

InfoRequest(name) == [op |-> "info", project_name |-> name]
ListRequest == [op |-> "list", project_name |-> ""]
NoRequest == [op |-> "none", project_name |-> ""]
NoResponse == [status_code |-> 0, detail |-> "", body |-> None]

Handle(req, df) ==
    IF req.op = "info" THEN Respond(get_github_project_info(req.project_name, df))
    ELSE Respond(get_available_projects(df))

----------------------------------------------------------------------------
(* The backend as a state machine *)

NoCall == [response |-> NoResponse, repeated |-> FALSE]

ClientIdle ==
    /\ combo = [items |-> <<"Loading...">>, current |-> "Loading...", connected |-> FALSE]
    /\ names_job = "idle"
    /\ pool = {}
    /\ events = <<>>
    /\ label = ""
    /\ plot = <<>>
    /\ started = 0
    /\ shown = None
    /\ applied = <<>>

ServerStart ==
    /\ dataframe = None
    /\ request = NoRequest
    /\ response = NoResponse
    /\ loaded = <<>>
    /\ first = [n \in RequestNames |-> NoCall]

Init ==
    /\ \/ \E cols \in ColumnSets : \E k \in 0..MaxRows : \E rows \in [1..k -> RowsOver(cols)] :
             resource = Resource("ok", DataFrame(cols, rows))
       \/ \E st \in ReadOutcomes \ {"ok"} : resource = Resource(st, None)
    /\ ServerStart
    /\ ClientIdle

(* One request: the handler asks the provider once and answers from what it got *)
Serve(req) ==
    /\ dataframe' = get_dataframe(resource)
    /\ request' = req
    /\ response' = Handle(req, dataframe')
    /\ UNCHANGED resource

GetProjectInfo ==
    /\ \E name \in RequestNames : Serve(InfoRequest(name))
    /\ UNCHANGED <<loaded, first, clientVars>>

GetAvailableProjects ==
    /\ Serve(ListRequest)
    /\ UNCHANGED <<loaded, first, clientVars>>

Next == GetProjectInfo \/ GetAvailableProjects

Spec == Init /\ [][Next]_vars

----------------------------------------------------------------------------
(* The backend serving a run of requests while the file may be replaced *)

TestColumns == AllColumns \cup {"star_count_prev"}

TestRow(n, y, m, p, c) ==
    [col \in TestColumns |->
        CASE col = "name" -> n
          [] col = "year" -> y
          [] col = "month" -> m
          [] col = "star_count_prev" -> p
          [] col = "star_count_current" -> c
          [] OTHER -> 90]

(* The table of the tests' Mock_Response_Provider *)
TestFrame ==
    DataFrame(TestColumns,
              << TestRow("A", 2008, 3, 1, 10), TestRow("A", 2008, 4, 10, 20),
                 TestRow("B", 2008, 3, 20, 40), TestRow("C", 2008, 3, 30, 50) >>)

DropColumn(df, c) ==
    DataFrame(df.columns \ {c},
              [i \in 1..Len(df.rows) |-> Restrict(df.rows[i], df.columns \ {c})])

AppendRow(df, r) == DataFrame(df.columns, Append(df.rows, r))

ServerResources ==
    { Resource("ok", TestFrame),
      Resource("ok", AppendRow(TestFrame, TestRow("A", 2008, 5, 20, 30))),
      Resource("ok", DropColumn(TestFrame, "month")),
      Resource("missing", None),
      Resource("malformed", None),
      Resource("ioerror", None) }

InitServer ==
    /\ resource \in ServerResources
    /\ ServerStart
    /\ ClientIdle

(* history of the provider calls *)
Remember ==
    loaded' = IF Len(loaded) = 2 THEN <<loaded[2], resource>> ELSE Append(loaded, resource)

ServeProjectInfo ==
    /\ \E name \in RequestNames :
          /\ Serve(InfoRequest(name))
          /\ first' = [first EXCEPT ![name] =
                          IF @ = NoCall
                          THEN [response |-> response', repeated |-> FALSE]
                          ELSE [@ EXCEPT !.repeated = TRUE]]
    /\ Remember
    /\ UNCHANGED clientVars

ServeAvailableProjects ==
    /\ Serve(ListRequest)
    /\ Remember
    /\ UNCHANGED <<first, clientVars>>

(* The file is replaced, removed or damaged between two requests *)
ReplaceResource ==
    /\ \E r \in ServerResources \ {resource} : resource' = r
    /\ first' = [n \in RequestNames |-> NoCall]
    /\ UNCHANGED <<dataframe, request, response, loaded, clientVars>>

NextServer == ServeProjectInfo \/ ServeAvailableProjects \/ ReplaceResource

SpecServer == InitServer /\ [][NextServer]_vars

----------------------------------------------------------------------------
(* The desktop client *)

(* MainWindow.get_project_names *)
get_project_names(resp) ==
    IF resp.status_code # HTTP_OK THEN <<>> ELSE resp.body.names

(* MainWindow.get_project_details: None unless the status is 200, else the
   project rebuilt from the JSON fields *)
get_project_details(resp) ==
    IF resp.status_code # HTTP_OK THEN None
    ELSE GitHub_Project(resp.body.project_name, resp.body.number_of_stars,
                        [k \in 1..Len(resp.body.starpoints) |->
                            Starpoint(resp.body.starpoints[k].year,
                                      resp.body.starpoints[k].month,
                                      resp.body.starpoints[k].total_stars)])

(* the name the worker's lambda closed over in fetch_project_details *)
selected_project_name(w) == w.name

(* x = year + (month - 1) / 12, kept in twelfths of a year; y = total_stars *)
PlotPoints(points) ==
    [k \in 1..Len(points) |->
        <<12 * points[k].year + (points[k].month - 1), points[k].total_stars>>]

LabelText(project) ==
    project.project_name \o " - " \o ToString(project.number_of_stars) \o " stars"

(* Variant: a failed fetch blanks the display *)
update_graph_blank(project_data, display) ==
    IF project_data = None THEN [label |-> "", plot |-> <<>>]
    ELSE [label |-> LabelText(project_data), plot |-> PlotPoints(project_data.starpoints)]

(* MainWindow.update_graph *)
update_graph(project_data, display) ==
    IF project_data = None THEN display
    ELSE [label |-> LabelText(project_data), plot |-> PlotPoints(project_data.starpoints)]

(* MainWindow.update_combo_box: clear, addItems, connect currentTextChanged *)
update_combo_box(projects) ==
    [items |-> projects,
     current |-> IF projects = <<>> THEN "" ELSE projects[1],
     connected |-> TRUE]

(* After MainWindow.__init__: "Loading..." in the combo box, the names worker
   handed to the thread pool *)
InitClient ==
    /\ resource \in ServerResources
    /\ ServerStart
    /\ combo = [items |-> <<"Loading...">>, current |-> "Loading...", connected |-> FALSE]
    /\ names_job = "started"
    /\ pool = {}
    /\ events = <<>>
    /\ label = ""
    /\ plot = <<>>
    /\ started = 0
    /\ shown = None
    /\ applied = <<>>

(* Worker.run of the names worker: the request, then the emit *)
NamesWorkerRun ==
    /\ names_job = "started"
    /\ Serve(ListRequest)
    /\ names_job' = "done"
    /\ events' = Append(events, [slot |-> "update_combo_box", id |-> 0, name |-> "",
                                 data |-> get_project_names(response')])
    /\ UNCHANGED <<loaded, first, combo, pool, label, plot, started, shown, applied>>

(* The user picks another item; fetch_project_details runs if connected *)
SelectProject ==
    /\ started < MaxWorkers
    /\ \E k \in 1..Len(combo.items) :
          /\ combo.items[k] # combo.current
          /\ combo' = [combo EXCEPT !.current = combo.items[k]]
          /\ IF combo.connected
             THEN /\ pool' = pool \cup {[id |-> started + 1, name |-> combo.items[k]]}
                  /\ started' = started + 1
             ELSE UNCHANGED <<pool, started>>
    /\ UNCHANGED <<serverVars, names_job, events, label, plot, shown, applied>>

(* Worker.run of a details worker, whichever the pool runs next *)
DetailsWorkerRun ==
    /\ \E w \in pool :
          /\ Serve(InfoRequest(selected_project_name(w)))
          /\ pool' = pool \ {w}
          /\ events' = Append(events, [slot |-> "update_graph", id |-> w.id, name |-> w.name,
                                       data |-> get_project_details(response')])
    /\ UNCHANGED <<loaded, first, combo, names_job, label, plot, started, shown, applied>>

(* The UI thread takes the oldest queued result and runs the connected slot *)
DeliverResult ==
    /\ events # <<>>
    /\ LET e == Head(events) IN
          IF e.slot = "update_combo_box"
          THEN /\ combo' = update_combo_box(e.data)
               /\ UNCHANGED <<label, plot, shown, applied>>
          ELSE LET display == update_graph(e.data, [label |-> label, plot |-> plot]) IN
               /\ label' = display.label
               /\ plot' = display.plot
               /\ shown' = IF e.data = None THEN shown ELSE e.data
               /\ applied' = Append(applied, [id |-> e.id, ok |-> e.data # None])
               /\ UNCHANGED combo
    /\ events' = Tail(events)
    /\ UNCHANGED <<serverVars, names_job, pool, started>>

NextClient ==
    NamesWorkerRun \/ SelectProject \/ DetailsWorkerRun \/ DeliverResult \/ ReplaceResource

SpecClient == InitClient /\ [][NextClient]_vars

----------------------------------------------------------------------------
(* What the answers must be, stated on the file and the request alone *)

Available == resource.state = "ok"

Table == resource.frame.rows

HasColumns(cols) == Available /\ cols \subseteq resource.frame.columns

AskedInfo(name) == request = InfoRequest(name)

AskedList == request = ListRequest

Failure(detail) == [status_code |-> 404, detail |-> detail, body |-> None]

Succeeded == response.status_code = 200

(* positions of the rows of a project *)
RowsOf(name) == { i \in 1..Len(Table) : Table[i]["name"] = name }

Later(i, j) ==
    \/ Table[i]["year"] > Table[j]["year"]
    \/ Table[i]["year"] = Table[j]["year"] /\ Table[i]["month"] > Table[j]["month"]

(* the rows of a project at its greatest (year, month) *)
LatestOf(name) == { i \in RowsOf(name) : \A j \in RowsOf(name) : ~Later(j, i) }

PointOf(i) ==
    [year |-> Table[i]["year"], month |-> Table[i]["month"],
     total_stars |-> Table[i]["star_count_current"]]

(* C1: with the four columns present and at least one row of the project,
   number_of_stars is the largest star_count_current among the rows of the
   project at its lexicographically greatest (year, month), and of no other row *)
C1_LatestStars ==
    \A name \in RequestNames :
        (AskedInfo(name) /\ HasColumns(RequiredColumns) /\ RowsOf(name) # {}) =>
            /\ Succeeded
            /\ \E i \in LatestOf(name) :
                  /\ response.body.number_of_stars = Table[i]["star_count_current"]
                  /\ \A j \in LatestOf(name) :
                        Table[j]["star_count_current"] <= response.body.number_of_stars

(* a project whose latest count is below one of its earlier counts, next to a
   later and larger row of another project *)
C1_Witness ==
    \E name \in RequestNames :
        /\ AskedInfo(name) /\ HasColumns(RequiredColumns) /\ Succeeded
        /\ \E i \in RowsOf(name) : \E k \in 1..Len(Table) :
              /\ i \notin LatestOf(name)
              /\ Table[i]["star_count_current"] > response.body.number_of_stars
              /\ Table[k]["name"] # name
              /\ \A j \in RowsOf(name) : Later(k, j)
              /\ Table[k]["star_count_current"] > response.body.number_of_stars

(* C2: starpoints has one point per row of the project, in the order of the
   rows of the table, repeated rows kept, rows of other projects left out *)
C2_Starpoints ==
    \A name \in RequestNames :
        (AskedInfo(name) /\ HasColumns(RequiredColumns) /\ RowsOf(name) # {}) =>
            /\ Succeeded
            /\ Len(response.body.starpoints) = Cardinality(RowsOf(name))
            /\ \A i \in RowsOf(name) :
                  response.body.starpoints[Cardinality({ j \in RowsOf(name) : j <= i })]
                      = PointOf(i)

(* a project with a repeated row, after a row of another project *)
C2_Witness ==
    \E name \in RequestNames :
        /\ AskedInfo(name) /\ HasColumns(RequiredColumns) /\ Succeeded
        /\ Len(response.body.starpoints) = 2
        /\ response.body.starpoints[1] = response.body.starpoints[2]
        /\ Len(Table) = 3
        /\ Table[2]["name"] # name

(* C3: with a name column present, the list of projects holds every name of
   the table once and nothing else *)
C3_DistinctNames ==
    (AskedList /\ HasColumns({"name"})) =>
        /\ Succeeded
        /\ response.body.kind = "list"
        /\ LET names == response.body.names IN
              /\ { names[k] : k \in 1..Len(names) } = { Table[i]["name"] : i \in 1..Len(Table) }
              /\ \A k, l \in 1..Len(names) : names[k] = names[l] => k = l

(* a table in which a project has several rows and another project one *)
C3_Witness ==
    /\ AskedList /\ HasColumns({"name"}) /\ Succeeded
    /\ Len(response.body.names) = 2
    /\ Len(Table) = 3

(* C4: with the four columns present, the request fails with "No project
   details" exactly when no row has the name; otherwise it succeeds and the
   answer carries the requested name *)
C4_NotFoundIffNoRow ==
    \A name \in RequestNames :
        (AskedInfo(name) /\ HasColumns(RequiredColumns)) =>
            /\ (response = Failure("No project details")) <=> (RowsOf(name) = {})
            /\ RowsOf(name) # {} =>
                  /\ Succeeded
                  /\ response.body.kind = "GitHub_Project"
                  /\ response.body.project_name = name

(* an unknown name asked of a table that has rows *)
C4_Witness ==
    \E name \in RequestNames :
        /\ AskedInfo(name) /\ HasColumns(RequiredColumns)
        /\ Len(Table) > 0 /\ RowsOf(name) = {}
        /\ response = Failure("No project details")

(* C5: when the provider has no table, every request fails with "Dataframe
   Missing", never with another failure and never with a result *)
C5_MissingFirst ==
    (~Available /\ request # NoRequest) => response = Failure("Dataframe Missing")

(* a project asked of an unreadable file *)
C5_Witness ==
    /\ resource.state = "malformed"
    /\ AskedInfo("A")
    /\ response = Failure("Dataframe Missing")

(* C6: a table lacking one of the four columns fails every project request
   with "Dataframe Corrupted"; the list of projects fails so exactly when the
   name column is absent *)
C6_FailClosed ==
    /\ \A name \in RequestNames :
          (AskedInfo(name) /\ Available /\ ~HasColumns(RequiredColumns)) =>
              response = Failure("Dataframe Corrupted")
    /\ (AskedList /\ Available) =>
          /\ (response = Failure("Dataframe Corrupted")) <=> ~HasColumns({"name"})
          /\ HasColumns({"name"}) => Succeeded

(* the list of projects served from a table without the month column *)
C6_Witness ==
    /\ AskedList /\ HasColumns({"name"}) /\ ~HasColumns({"month"})
    /\ Len(Table) > 0
    /\ Succeeded

(* C7: every failure is a 404 with one of the three messages, the message
   telling the cause, and carries no result; every other answer is a 200
   carrying the result *)
C7_OneStatus ==
    request # NoRequest =>
        \/ /\ response.status_code = 200
           /\ response.body # None
           /\ Available /\ HasColumns({"name"})
        \/ /\ response = Failure("Dataframe Missing") /\ ~Available
        \/ /\ response = Failure("Dataframe Corrupted")
           /\ Available /\ ~HasColumns(RequiredColumns)
        \/ /\ response = Failure("No project details")
           /\ HasColumns(RequiredColumns)
           /\ request.op = "info" /\ RowsOf(request.project_name) = {}

(* an unknown project asked of a complete table *)
C7_Witness ==
    /\ AskedInfo("NotAProject") /\ HasColumns(AllColumns)
    /\ response.status_code = 404 /\ response.detail = "No project details"

(* C8: the provider never lets an error through: a read that fails for any
   cause yields the missing marker, a read that succeeds yields the table then
   on disk, whatever an earlier call returned *)
C8_ProviderFresh ==
    loaded # <<>> =>
        LET read == loaded[Len(loaded)] IN
            /\ read.state = "ok" => dataframe = read.frame
            /\ read.state # "ok" => dataframe = None /\ response = Failure("Dataframe Missing")
            /\ response.status_code \in {200, 404}

(* a failing read right after a call that had returned a table *)
C8_Witness ==
    /\ Len(loaded) = 2
    /\ loaded[1].state = "ok"
    /\ loaded[2].state \in {"missing", "malformed", "ioerror"}
    /\ dataframe = None

DetailsEvents == { k \in 1..Len(events) : events[k].slot = "update_graph" }

(* C10: every change of selection starts one worker holding the name chosen
   then, none is cancelled and none is applied twice; the label and the plot
   show the most recently delivered successful result, and a failed result
   leaves them as they were *)
C10_LastWriteWins ==
    /\ IF shown = None
       THEN label = "" /\ plot = <<>>
       ELSE /\ label = shown.project_name \o " - " \o ToString(shown.number_of_stars)
                           \o " stars"
            /\ Len(plot) = Len(shown.starpoints)
            /\ \A k \in 1..Len(plot) :
                  /\ plot[k][1] = 12 * shown.starpoints[k].year
                                     + shown.starpoints[k].month - 1
                  /\ plot[k][2] = shown.starpoints[k].total_stars
    /\ \A k \in DetailsEvents :
          events[k].data # None => events[k].data.project_name = events[k].name
    /\ Cardinality(pool) + Cardinality(DetailsEvents) + Len(applied) = started
    /\ { w.id : w \in pool } \cup { events[k].id : k \in DetailsEvents }
          \cup { applied[k].id : k \in 1..Len(applied) } = 1..started

(* three fetches all delivered: a later one applied before an earlier one, the
   last delivered one failed, and the display shows a project that is not the
   one selected *)
C10_Witness ==
    /\ Len(applied) = 3 /\ pool = {} /\ events = <<>>
    /\ applied[1].id > applied[2].id
    /\ applied[2].ok /\ ~applied[3].ok
    /\ shown # None
    /\ shown.project_name # combo.current
    /\ label = shown.project_name \o " - " \o ToString(shown.number_of_stars) \o " stars"

====
